---------------------------- MODULE Spec2Model ----------------------------
(***************************************************************************)
(* HelloHTTPS (src/main.cpp): a TLS client that connects a non-blocking    *)
(* socket, drives the handshake, writes one HTTP request and reads the     *)
(* response into a fixed buffer until two markers are seen.                *)
(*                                                                         *)
(* The program is sequential.  One action models one call of an external   *)
(* operation (mbed TLS or socket) together with the code that runs up to   *)
(* the next such call.  The results of the external operations are the     *)
(* inputs, drawn from the sets below.  Bytes are one-character strings,    *)
(* C strings are tuples of bytes, the buffer is a function on              *)
(* 0 .. RECV_BUFFER_SIZE - 1.                                              *)
(***************************************************************************)
EXTENDS Integers, Sequences, FiniteSets, TLC

(***************************************************************************)
(* Program constants (src/main.cpp:50-58) and library codes.               *)
(***************************************************************************)
\* RECV_BUFFER_SIZE is 600 in the source (line 52); the model scales it down,
\* and the path with it, so that the request of main still fits the buffer.
RECV_BUFFER_SIZE == 46

HTTPS_SERVER_NAME == <<"o", "s", ".", "m", "b", "e", "d", ".", "c", "o", "m">>

\* HTTPS_PATH (line 54) cut down to its last component
HTTPS_PATH == <<"/", "h", "e", "l", "l", "o", ".", "t", "x", "t">>

HTTPS_OK_STR == <<"2", "0", "0", " ", "O", "K">>

HTTPS_HELLO_STR == <<"H", "e", "l", "l", "o", " ", "w", "o", "r", "l", "d", "!">>

\* mbedtls/ssl.h: -0x6900 and -0x6880; an alert as one engine-level fatal code.
MBEDTLS_ERR_SSL_WANT_READ == -26880
MBEDTLS_ERR_SSL_WANT_WRITE == -26752
MBEDTLS_ERR_SSL_FATAL_ALERT_MESSAGE == -30592
\* a nonzero result of a configuration call (mbedtls_ctr_drbg_seed and the like)
MBEDTLS_ERR_CONFIG == -52
\* nsapi_types.h
NSAPI_ERROR_OK == 0
NSAPI_ERROR_WOULD_BLOCK == -3001
NSAPI_ERROR_NO_CONNECTION == -3004
\* a nonzero verification result of mbedtls_ssl_get_verify_result
MBEDTLS_X509_BADCERT_NOT_TRUSTED == 8

\* the terminating byte '\0', and a byte of the object no code has written yet
NUL == "NUL"
UNINIT == "??"

\* conversion to size_t: unsigned, so a negative value wraps to a huge one.
\* The target's size_t has 32 bits; TLC's integers stop at 2^31 - 1, so the
\* model wraps at 2^30, far above every length of the model.
SizeT(x) == x % 1073741824

(***************************************************************************)
(* Bounds of the model.                                                    *)
(***************************************************************************)
\* extra characters of the path whose request does not fit the buffer
LongPad == 8
\* the first partial write of the scripted transport of scenario A
FirstWrite == 40
\* the largest byte count a call of the socket answers with
MaxCount == 48

(***************************************************************************)
(* C library functions.                                                    *)
(***************************************************************************)
Min(a, b) == IF a < b THEN a ELSE b

Pad(n) == [i \in 1..n |-> "x"]

\* s occurs in t as a contiguous subsequence
Contains(t, s) ==
  \E i \in 0..(Len(t) - Len(s)) : \A j \in 1..Len(s) : t[i + j] = s[j]

\* index of the first NUL of buf at or after from; RECV_BUFFER_SIZE if none
RECURSIVE FirstNul(_, _)
FirstNul(buf, from) ==
  IF from >= RECV_BUFFER_SIZE THEN RECV_BUFFER_SIZE
  ELSE IF buf[from] = NUL THEN from
  ELSE FirstNul(buf, from + 1)

\* strstr(buf + from, needle) != NULL: needle occurs in the C string at buf[from]
Strstr(buf, from, needle) ==
  LET end == FirstNul(buf, from)
  IN  \E i \in from..(end - Len(needle)) :
        \A j \in 1..Len(needle) : buf[i + j - 1] = needle[j]

\* buf with data stored at at, at + 1, ...; a store outside the array is dropped
Store(buf, at, data) ==
  [i \in DOMAIN buf |->
     IF i >= at /\ i < at + Len(data) THEN data[i - at + 1] ELSE buf[i]]

\* the text "GET <path> HTTP/1.1\nHost: <hostname>\n\n" (line 224)
RequestText(p) ==
  <<"G", "E", "T", " ">> \o p
    \o <<" ", "H", "T", "T", "P", "/", "1", ".", "1", "\n",
         "H", "o", "s", "t", ":", " ">>
    \o HTTPS_SERVER_NAME \o <<"\n", "\n">>

\* snprintf(buf, n, ...): at most n - 1 characters and a NUL are stored, the
\* length of the whole text is returned
Snprintf(buf, n, text) ==
  [buffer |-> Store(buf, 0, SubSeq(text, 1, Min(Len(text), n - 1)) \o <<NUL>>),
   ret    |-> Len(text)]


(***************************************************************************)
(* The transport adapter (lines 359-390) and the results of the engine.    *)
(***************************************************************************)
\* a faulty variant: the result of the socket is handed on as it is
ssl_recv_raw(recv) == recv

\* ssl_recv: the result of socket->recv as handed to mbed TLS
ssl_recv(recv) ==
  IF NSAPI_ERROR_WOULD_BLOCK = recv THEN MBEDTLS_ERR_SSL_WANT_READ
  ELSE IF recv < 0 THEN -1
  ELSE recv

\* ssl_send: the result of socket->send as handed to mbed TLS
ssl_send(size) ==
  IF NSAPI_ERROR_WOULD_BLOCK = size THEN MBEDTLS_ERR_SSL_WANT_WRITE
  ELSE IF size < 0 THEN -1
  ELSE size

\* what the socket answers when it transfers nothing
SocketErrors == {NSAPI_ERROR_WOULD_BLOCK, NSAPI_ERROR_NO_CONNECTION}

\* mbed TLS hands a negative result of its send / recv callback to its caller
BioResults ==
  {ssl_recv(e) : e \in SocketErrors} \cup {ssl_send(e) : e \in SocketErrors}

\* results of the engine that are not a byte count
EngineErrors == BioResults \cup {MBEDTLS_ERR_SSL_FATAL_ALERT_MESSAGE}

\* the paths startTest is called with: the one of main, and one that holds a
\* marker and whose request is longer than the buffer
Paths == {HTTPS_PATH, <<"/">> \o HTTPS_OK_STR \o Pad(LongPad)}

ScenarioAResponse ==
  <<"H", "T", "T", "P", "/", "1", ".", "1", " ", "2", "0", "0", " ", "O", "K",
    "\r", "\n", "\r", "\n",
    "H", "e", "l", "l", "o", " ", "w", "o", "r", "l", "d", "!">>

\* the byte streams the peer may send before it closes
Responses ==
  {ScenarioAResponse,
   HTTPS_OK_STR,
   HTTPS_HELLO_STR \o HTTPS_OK_STR,
   <<NUL>> \o HTTPS_OK_STR \o HTTPS_HELLO_STR,
   Pad(RECV_BUFFER_SIZE - 1 - Len(HTTPS_OK_STR)) \o HTTPS_OK_STR
     \o HTTPS_HELLO_STR}

(***************************************************************************)
(* State.                                                                  *)
(***************************************************************************)
VARIABLES
  pc,         \* the external call startTest / main makes next
  ret,        \* int ret (line 153)
  offset,     \* int offset (line 226)
  _bpos,      \* size_t _bpos
  _buffer,    \* char _buffer[RECV_BUFFER_SIZE]
  _got200,    \* volatile bool _got200
  _gothello,  \* volatile bool _gothello
  path,       \* the argument of startTest
  sock,       \* the TCPSocket: "new", "connected" or "closed"
  closes,     \* number of calls of _tcpsocket->close()
  flags,      \* uint32_t flags (line 250), -1 before it is set
  verdict,    \* which of the two verification lines was printed (lines 251-257)
  error,      \* the name print_mbedtls_error / "Failed to connect" reported
  response,   \* the byte stream the peer answers the request with
  rcvd,       \* how many bytes of it mbedtls_ssl_read has delivered
  established,\* mbedtls_ssl_handshake has returned a result >= 0
  last,       \* the external operation startTest called last
  asked,      \* the slice handed to the last mbedtls_ssl_write / mbedtls_ssl_read
  mock,       \* the scripted transport: its scenario and the calls it has seen
  bio         \* the call of ssl_recv / ssl_send under way: what the socket
              \* answered (recv / size) and what the callback returned

vars ==
  <<pc, ret, offset, _bpos, _buffer, _got200, _gothello, path, sock, closes,
    flags, verdict, error, response, rcvd, established, last, asked, mock,
    bio>>

Scenarios == {"none", "A", "B"}

\* the scripted transport before its first call
NoCalls(s) == [scenario |-> s, hs |-> 0, wr |-> 0, rd |-> 0, prev |-> 0]

\* no callback of the transport adapter is under way
NoBio == [fn |-> "none", result |-> 0, ret |-> 0, done |-> FALSE]

\* the object the constructor (lines 105-122) has built, before startTest
Constructed ==
  /\ pc = "ctr_drbg_seed"
  /\ ret = 0
  /\ offset = 0
  /\ _bpos = 0
  /\ _buffer = [i \in 0..(RECV_BUFFER_SIZE - 1) |->
                  IF i = RECV_BUFFER_SIZE - 1 THEN NUL ELSE UNINIT]
  /\ _got200 = FALSE
  /\ _gothello = FALSE
  /\ sock = "new"
  /\ closes = 0
  /\ flags = -1
  /\ verdict = "none"
  /\ error = "none"
  /\ response = <<>>
  /\ rcvd = 0
  /\ established = FALSE
  /\ last = "none"
  /\ asked = [at |-> 0, len |-> 0]

\* the state main has built at line 442
Init ==
  /\ Constructed
  /\ bio = NoBio
  /\ \E s \in Scenarios :
       /\ mock = NoCalls(s)
       /\ path \in (IF s = "A" THEN {HTTPS_PATH} ELSE Paths)


(***************************************************************************)
(* What the external operations return.  The transport of scenario "none"  *)
(* is unconstrained.  The scripted transports follow section 8 of the      *)
(* specification: A completes the handshake on the third call, takes the   *)
(* request in two writes and delivers the response in three reads of       *)
(* increasing size; B fails the handshake on its second call.              *)
(***************************************************************************)
\* the scripted transport after one more call of op ("hs", "wr", "rd"); the
\* unconstrained transport keeps no record of its calls
Called(op, r) ==
  IF mock.scenario = "none" THEN mock
  ELSE [mock EXCEPT ![op] = @ + 1, !.prev = r]

ConfigResults ==
  IF mock.scenario = "none" THEN {0, MBEDTLS_ERR_CONFIG} ELSE {0}

ConnectResults ==
  IF mock.scenario = "none" THEN {NSAPI_ERROR_OK, NSAPI_ERROR_NO_CONNECTION}
  ELSE {NSAPI_ERROR_OK}

HandshakeResults ==
  CASE mock.scenario = "A" ->
         IF mock.hs < 2 THEN {MBEDTLS_ERR_SSL_WANT_READ} ELSE {0}
    [] mock.scenario = "B" ->
         IF mock.hs < 1 THEN {MBEDTLS_ERR_SSL_WANT_READ}
         ELSE {MBEDTLS_ERR_SSL_FATAL_ALERT_MESSAGE}
    [] OTHER -> {0} \cup EngineErrors

\* mbedtls_ssl_write of len bytes: a count up to len, or an error
WriteResults(len) ==
  IF mock.scenario = "A"
  THEN IF mock.wr = 0 THEN {Min(FirstWrite, len)} ELSE {len}
  ELSE (0..len) \cup EngineErrors

\* mbedtls_ssl_read of at most len bytes: a count up to len and up to what the
\* peer has left to send, 0 when the peer has closed, or an error
ReadResults(len) ==
  LET avail == Len(response) - rcvd
  IN  IF mock.scenario = "A"
      THEN CASE mock.rd = 0 ->
                  {n \in 1..Min(len, avail) :
                     \E m \in (n + 1)..avail : avail - n - m > m}
             [] mock.rd = 1 ->
                  {m \in 1..Min(len, avail) : m > mock.prev /\ avail - m > m}
             [] OTHER -> {Min(len, avail)}
      ELSE (0..Min(len, avail)) \cup EngineErrors

VerifyResults == {0, MBEDTLS_X509_BADCERT_NOT_TRUSTED}


(***************************************************************************)
(* startTest (lines 143-296) and the destructor (lines 126-134).           *)
(***************************************************************************)
\* _tcpsocket->close()
Close ==
  /\ sock' = "closed"
  /\ closes' = closes + 1

\* a faulty variant: a nonzero result is reported and startTest goes on
ConfigStepGoesOn(here, name, r, next) ==
  /\ pc = here
  /\ ret' = r
  /\ last' = here
  /\ error' = IF r # 0 THEN name ELSE error
  /\ pc' = next
  /\ UNCHANGED <<offset, _bpos, _buffer, path, sock, closes, flags, verdict,
                 response, rcvd, established, asked, mock, bio>>

\* a configuration call: a nonzero result is reported and startTest returns
ConfigStep(here, name, r, next) ==
  /\ pc = here
  /\ ret' = r
  /\ last' = here
  /\ IF r # 0
     THEN /\ error' = name
          /\ pc' = "returned"
     ELSE /\ error' = error
          /\ pc' = next
  /\ UNCHANGED <<offset, _bpos, _buffer, path, sock, closes, flags, verdict,
                 response, rcvd, established, asked, mock, bio>>

\* lines 145-159: the flags are cleared, then mbedtls_ctr_drbg_seed
CtrDrbgSeed ==
  \E r \in ConfigResults :
    /\ ConfigStep("ctr_drbg_seed", "mbedtls_crt_drbg_init", r, "x509_crt_parse")
    /\ _got200' = FALSE
    /\ _gothello' = FALSE

\* lines 161-165
X509CrtParse ==
  \E r \in ConfigResults :
    /\ ConfigStep("x509_crt_parse", "mbedtls_x509_crt_parse", r,
                  "ssl_config_defaults")
    /\ UNCHANGED <<_got200, _gothello>>

\* lines 167-181
SslConfigDefaults ==
  \E r \in ConfigResults :
    /\ ConfigStep("ssl_config_defaults", "mbedtls_ssl_config_defaults", r,
                  "ssl_setup")
    /\ UNCHANGED <<_got200, _gothello>>

\* lines 189-197
SslSetup ==
  \E r \in ConfigResults :
    /\ ConfigStep("ssl_setup", "mbedtls_ssl_setup", r, "connect")
    /\ UNCHANGED <<_got200, _gothello>>

\* lines 202-208
Connect ==
  \E r \in ConnectResults :
    /\ pc = "connect"
    /\ ret' = r
    /\ last' = "connect"
    /\ IF r # NSAPI_ERROR_OK
       THEN /\ error' = "connect"
            /\ Close
            /\ pc' = "returned"
       ELSE /\ error' = error
            /\ sock' = "connected"
            /\ closes' = closes
            /\ pc' = "handshake"
    /\ UNCHANGED <<offset, _bpos, _buffer, _got200, _gothello, path, flags,
                   verdict, response, rcvd, established, asked, mock, bio>>

\* a faulty variant: want-read is not taken as a reason to call again
HandshakeAgainWriteOnly(r) == r # 0 /\ r = MBEDTLS_ERR_SSL_WANT_WRITE

\* a faulty variant: the loop goes on whenever the result is not 0
HandshakeAgainAny(r) == r # 0

\* the condition of the handshake loop (lines 214-215)
HandshakeAgain(r) ==
  r # 0 /\ (r = MBEDTLS_ERR_SSL_WANT_READ \/ r = MBEDTLS_ERR_SSL_WANT_WRITE)

\* a faulty variant: the comparison the wrong way round
FailedFlip(r) == r > 0

\* the test for an error after a loop (lines 216, 235, 275)
Failed(r) == r < 0

\* lines 212-226: one mbedtls_ssl_handshake; when the loop ends, the error
\* exit or the rendering of the request
SslHandshakeReturns(r) ==
  /\ pc = "handshake"
  /\ ret' = r
  /\ last' = "handshake"
  /\ mock' = Called("hs", r)
  /\ established' = (r >= 0)
  /\ IF HandshakeAgain(r)
     THEN /\ pc' = "handshake"
          /\ UNCHANGED <<error, sock, closes, _buffer, _bpos, offset>>
     ELSE IF Failed(r)
     THEN /\ error' = "mbedtls_ssl_handshake"
          /\ Close
          /\ pc' = "returned"
          /\ UNCHANGED <<_buffer, _bpos, offset>>
     ELSE LET s == Snprintf(_buffer, SizeT(RECV_BUFFER_SIZE - 1),
                            RequestText(path))
          IN  /\ _buffer' = s.buffer
              /\ _bpos' = SizeT(s.ret)
              /\ offset' = 0
              /\ pc' = "write"
              /\ UNCHANGED <<error, sock, closes>>
  /\ UNCHANGED <<_got200, _gothello, path, flags, verdict, response, rcvd,
                 asked, bio>>

SslHandshake ==
  /\ pc = "handshake"
  /\ \E r \in HandshakeResults : SslHandshakeReturns(r)

\* a faulty variant: the whole request length, whatever was sent already
WriteLenWhole(bpos, off) == SizeT(bpos)

\* the length handed to mbedtls_ssl_write (line 230)
WriteLen(bpos, off) == SizeT(bpos - off)

\* the condition of the write loop (lines 233-234)
WriteAgain(off, bpos, r) ==
  /\ SizeT(off) < bpos
  /\ (r > 0 \/ r = MBEDTLS_ERR_SSL_WANT_READ \/ r = MBEDTLS_ERR_SSL_WANT_WRITE)

\* a faulty variant: the count replaces the offset instead of advancing it
WriteAdvanceSet(off, r) == IF r > 0 THEN r ELSE off

\* the offset after one write (lines 231-232)
WriteAdvance(off, r) == IF r > 0 THEN off + r ELSE off

\* lines 227-242: one mbedtls_ssl_write returning r; when the loop ends, the
\* error exit or the step to the certificate report
SslWriteReturns(r) ==
  /\ pc = "write"
  /\ ret' = r
  /\ last' = "write"
  /\ asked' = [at |-> offset, len |-> WriteLen(_bpos, offset)]
  /\ mock' = Called("wr", r)
  /\ offset' = WriteAdvance(offset, r)
  /\ IF WriteAgain(offset', _bpos, r)
     THEN /\ pc' = "write"
          /\ UNCHANGED <<error, sock, closes>>
     ELSE IF Failed(r)
     THEN /\ error' = "mbedtls_ssl_write"
          /\ Close
          /\ pc' = "returned"
     ELSE /\ pc' = "get_verify_result"
          /\ UNCHANGED <<error, sock, closes>>
  /\ UNCHANGED <<_bpos, _buffer, _got200, _gothello, path, flags, verdict,
                 response, rcvd, established, bio>>

SslWrite ==
  /\ pc = "write"
  /\ \E r \in WriteResults(WriteLen(_bpos, offset)) : SslWriteReturns(r)

\* what the peer answers once the request has been written
PeerResponses == IF mock.scenario = "A" THEN {ScenarioAResponse} ELSE Responses

\* a faulty variant: a nonzero verification result ends the session
GetVerifyResultGate ==
  \E f \in VerifyResults :
    /\ pc = "get_verify_result"
    /\ response' \in PeerResponses
    /\ flags' = f
    /\ verdict' = IF f # 0 THEN "failed" ELSE "passed"
    /\ offset' = 0
    /\ last' = "get_verify_result"
    /\ IF f # 0
       THEN /\ error' = "mbedtls_ssl_get_verify_result"
            /\ Close
            /\ pc' = "returned"
       ELSE /\ pc' = "read"
            /\ UNCHANGED <<error, sock, closes>>
    /\ UNCHANGED <<ret, _bpos, _buffer, _got200, _gothello, path, rcvd,
                   established, asked, mock, bio>>

\* lines 244-261: the verification result is fetched and reported, then the
\* offset is reset for reading; from here on the peer's answer is under way
GetVerifyResult ==
  \E f \in VerifyResults :
    /\ pc = "get_verify_result"
    /\ response' \in PeerResponses
    /\ flags' = f
    /\ verdict' = IF f # 0 THEN "failed" ELSE "passed"
    /\ offset' = 0
    /\ last' = "get_verify_result"
    /\ pc' = "read"
    /\ UNCHANGED <<ret, _bpos, _buffer, _got200, _gothello, path, sock, closes,
                   error, rcvd, established, asked, mock, bio>>

\* a faulty variant: no byte is kept for the terminator
ReadLenNoReserve(off) == SizeT(RECV_BUFFER_SIZE - off)

\* the length handed to mbedtls_ssl_read (line 264)
ReadLen(off) == SizeT(RECV_BUFFER_SIZE - off - 1)

\* the offset after one read (lines 265-266)
ReadAdvance(off, r) == IF r > 0 THEN off + r ELSE off

\* a faulty variant: no terminator is stored behind the bytes received
AfterReadNoTerminator(buf, off, data, off2) == Store(buf, off, data)

\* lines 263-269: mbedtls_ssl_read has stored data at _buffer + off, then the
\* terminator is stored at the new offset off2
AfterRead(buf, off, data, off2) == Store(Store(buf, off, data), off2, <<NUL>>)

\* a faulty variant: the flag tells whether the text received so far ends
\* with the marker, the earlier value is dropped
MarkerAtEnd(old, buf, needle) ==
  LET end == FirstNul(buf, 0)
  IN  end >= Len(needle) /\ Strstr(buf, end - Len(needle), needle)

\* lines 270-271: a flag stays set, or is set when the buffer holds the marker
MarkerSeen(old, buf, needle) == old \/ Strstr(buf, 0, needle)

\* a faulty variant: a result of 0 is taken as a reason to go on
ReadAgainOnZero(g200, ghello, r) ==
  /\ ~g200 \/ ~ghello
  /\ (r >= 0 \/ r = MBEDTLS_ERR_SSL_WANT_READ \/ r = MBEDTLS_ERR_SSL_WANT_WRITE)

\* a faulty variant: only want-read is taken as a reason to go on
ReadAgainReadOnly(g200, ghello, r) ==
  /\ ~g200 \/ ~ghello
  /\ (r > 0 \/ r = MBEDTLS_ERR_SSL_WANT_READ)

\* a faulty variant: the loop goes on whatever the flags are
ReadAgainIgnoreFlags(g200, ghello, r) ==
  r > 0 \/ r = MBEDTLS_ERR_SSL_WANT_READ \/ r = MBEDTLS_ERR_SSL_WANT_WRITE

\* the condition of the read loop (lines 272-274)
ReadAgain(g200, ghello, r) ==
  /\ ~g200 \/ ~ghello
  /\ (r > 0 \/ r = MBEDTLS_ERR_SSL_WANT_READ \/ r = MBEDTLS_ERR_SSL_WANT_WRITE)

\* the bytes a read that returns r has taken from the peer's stream
Delivered(r) == IF r > 0 THEN SubSeq(response, rcvd + 1, rcvd + r) ELSE <<>>

\* lines 262-296: one mbedtls_ssl_read returning r; when the loop ends, the
\* error exit or the normal end of startTest
SslReadReturns(r) ==
  /\ pc = "read"
  /\ ret' = r
  /\ last' = "read"
  /\ asked' = [at |-> offset, len |-> ReadLen(offset)]
  /\ mock' = Called("rd", r)
  /\ offset' = ReadAdvance(offset, r)
  /\ \E data \in {Delivered(r)} :
     \E buf \in {AfterRead(_buffer, offset, data, offset')} :
       /\ rcvd' = rcvd + Len(data)
       /\ _got200' = MarkerSeen(_got200, buf, HTTPS_OK_STR)
       /\ _gothello' = MarkerSeen(_gothello, buf, HTTPS_HELLO_STR)
       /\ IF ReadAgain(_got200', _gothello', r)
          THEN /\ pc' = "read"
               /\ _buffer' = buf
               /\ UNCHANGED <<_bpos, error, sock, closes>>
          ELSE IF Failed(r)
          THEN /\ error' = "mbedtls_ssl_read"
               /\ Close
               /\ pc' = "returned"
               /\ _buffer' = buf
               /\ UNCHANGED _bpos
          ELSE /\ _bpos' = SizeT(offset')
               /\ _buffer' = Store(buf, _bpos', <<NUL>>)
               /\ Close
               /\ pc' = "returned"
               /\ UNCHANGED error
  /\ UNCHANGED <<path, flags, verdict, response, established, bio>>

SslRead ==
  /\ pc = "read"
  /\ \E r \in ReadResults(ReadLen(offset)) : SslReadReturns(r)

\* lines 126-134 and 444: delete hello
Destroy ==
  /\ pc = "returned"
  /\ Close
  /\ pc' = "deleted"
  /\ UNCHANGED <<ret, offset, _bpos, _buffer, _got200, _gothello, path, flags,
                 verdict, error, response, rcvd, established, last, asked, mock,
                 bio>>

Next ==
  \/ CtrDrbgSeed
  \/ X509CrtParse
  \/ SslConfigDefaults
  \/ SslSetup
  \/ Connect
  \/ SslHandshake
  \/ SslWrite
  \/ GetVerifyResult
  \/ SslRead
  \/ Destroy

Spec == Init /\ [][Next]_vars


(***************************************************************************)
(* The transport that never fails a write: mbedtls_ssl_write returns a     *)
(* positive count or would-block, and does not return would-block forever. *)
(***************************************************************************)
IsWouldBlock(r) ==
  r = MBEDTLS_ERR_SSL_WANT_READ \/ r = MBEDTLS_ERR_SSL_WANT_WRITE

SslWriteBenign ==
  /\ pc = "write"
  /\ \E r \in WriteResults(WriteLen(_bpos, offset)) :
       /\ r > 0 \/ IsWouldBlock(r)
       /\ SslWriteReturns(r)

SslWriteProgress ==
  /\ pc = "write"
  /\ \E r \in WriteResults(WriteLen(_bpos, offset)) :
       /\ r > 0
       /\ SslWriteReturns(r)

NextBenignWrite ==
  \/ CtrDrbgSeed
  \/ X509CrtParse
  \/ SslConfigDefaults
  \/ SslSetup
  \/ Connect
  \/ SslHandshake
  \/ SslWriteBenign
  \/ GetVerifyResult
  \/ SslRead
  \/ Destroy

SpecBenignWrite ==
  Init /\ [][NextBenignWrite]_vars /\ WF_vars(SslWriteProgress)

\* a step of the program against a scripted transport
ScriptedStep == mock.scenario # "none" /\ Next

\* the program does not stop on its own: against a scripted transport, while a
\* step is possible, one is taken
SpecRunning == Init /\ [][Next]_vars /\ WF_vars(ScriptedStep)

\* a step of startTest outside its three loops
StartTestRuns ==
  /\ pc \notin {"handshake", "write", "read", "returned", "deleted"}
  /\ Next

\* startTest is in one of its loops
InLoop == pc \in {"handshake", "write", "read"}

\* a call in a loop returns something other than would-block
Settles == InLoop /\ ~IsWouldBlock(ret')

\* startTest keeps running, and the transport does not answer would-block
\* forever: if startTest stays in its loops for good, calls that return
\* something else are made again and again.  The would-block answers of a
\* scripted transport are counted, against it the program just goes on.
SpecSettles ==
  /\ Init /\ [][Next]_vars
  /\ WF_vars(StartTestRuns)
  /\ WF_vars(ScriptedStep)
  /\ (<>[]InLoop => []<><<Settles>>_vars)

(***************************************************************************)
(* The transport adapter on its own: mbed TLS calls ssl_recv or ssl_send,   *)
(* the callback calls the socket and maps what the socket answers.          *)
(***************************************************************************)
\* what socket->recv / socket->send answers: would-block and the codes around
\* it, the values of the two sentinels, small negative codes and byte counts
SocketResults ==
  (NSAPI_ERROR_NO_CONNECTION..(NSAPI_ERROR_WOULD_BLOCK + 3))
    \cup {MBEDTLS_ERR_SSL_WANT_READ, MBEDTLS_ERR_SSL_WANT_WRITE}
    \cup ((-3)..MaxCount)

\* a callback has been entered and the socket has answered
InitAdapter ==
  /\ Constructed
  /\ mock = NoCalls("none")
  /\ path = HTTPS_PATH
  /\ \E fn \in {"ssl_recv", "ssl_send"} : \E e \in SocketResults :
       bio = [fn |-> fn, result |-> e, ret |-> 0, done |-> FALSE]

\* the callback returns: the object is not touched
BioReturns(r) ==
  /\ ~bio.done
  /\ bio' = [bio EXCEPT !.ret = r, !.done = TRUE]
  /\ UNCHANGED <<pc, ret, offset, _bpos, _buffer, _got200, _gothello, path,
                 sock, closes, flags, verdict, error, response, rcvd,
                 established, last, asked, mock>>

\* lines 359-372
SslRecv == bio.fn = "ssl_recv" /\ BioReturns(ssl_recv(bio.result))

\* lines 377-390
SslSend == bio.fn = "ssl_send" /\ BioReturns(ssl_send(bio.result))

NextAdapter ==
  \/ SslRecv
  \/ SslSend

SpecAdapter == InitAdapter /\ [][NextAdapter]_vars

(***************************************************************************)
(* Properties.                                                             *)
(***************************************************************************)
\* the bytes received from the peer so far
Received == SubSeq(response, 1, rcvd)

ConfigStages ==
  {"ctr_drbg_seed", "x509_crt_parse", "ssl_config_defaults", "ssl_setup"}

ConfigErrors ==
  {"mbedtls_crt_drbg_init", "mbedtls_x509_crt_parse",
   "mbedtls_ssl_config_defaults", "mbedtls_ssl_setup"}

LoopStages == {"handshake", "write", "read"}

\* the call startTest made last returned a fatal result
StageFailed ==
  \/ last \in ConfigStages /\ ret # 0
  \/ last = "connect" /\ ret # NSAPI_ERROR_OK
  \/ last \in LoopStages /\ ret < 0 /\ ~IsWouldBlock(ret)

Ended == pc \in {"returned", "deleted"}

\* C1: under SpecBenignWrite (every write returns a positive count or
\* would-block, and would-block does not go on forever) the write loop, once
\* entered, ends without error with the sent offset equal to the request length.
C1_PartialWriteCompletes ==
  (pc = "write") ~>
     (/\ pc = "get_verify_result"
      /\ offset = _bpos
      /\ error = "none"
      /\ sock = "connected")

\* C1 witness: the loop has ended after more than one write, for the request
\* that is longer than the buffer.
C1_Witness ==
  /\ pc = "get_verify_result"
  /\ offset = _bpos
  /\ asked.at > 0
  /\ _bpos > RECV_BUFFER_SIZE

\* C2: the write phase ends either with the whole request sent, or with a
\* fatal result, the error reported and the socket closed; the certificate
\* report and the reading are never reached with less than the request sent.
C2_WriteAllOrFail ==
  /\ pc = "get_verify_result" => offset = _bpos
  /\ error = "mbedtls_ssl_write" =>
       /\ Ended
       /\ ret < 0 /\ ~IsWouldBlock(ret)
       /\ sock = "closed"

\* C3: while reading, the offset is at most RECV_BUFFER_SIZE - 1, the
\* terminator is in the buffer at the offset, and the read was asked for at
\* most RECV_BUFFER_SIZE - offset - 1 bytes.
C3_BufferBound ==
  last = "read" =>
    /\ offset <= RECV_BUFFER_SIZE - 1
    /\ _buffer[offset] = NUL
    /\ asked.len <= RECV_BUFFER_SIZE - asked.at - 1

\* C3 witness: the buffer has been filled to its last free byte.
C3_Witness ==
  /\ last = "read"
  /\ offset = RECV_BUFFER_SIZE - 1
  /\ asked.len > 0

\* C4: when a call has returned a fatal result, startTest has returned and the
\* error is reported: the call is not repeated and no other call follows; and
\* once an error is reported startTest makes no further call.
C4_FatalShortCircuit ==
  /\ StageFailed => Ended /\ error # "none"
  /\ error # "none" => Ended /\ StageFailed

\* C4 witness: a read has failed after some bytes were received.
C4_Witness ==
  /\ last = "read"
  /\ StageFailed
  /\ rcvd > 0
  /\ pc = "returned"

\* C5: in the read loop a marker flag that is set stays set.
C5_MarkerMonotone ==
  [][/\ _got200 => _got200'
     /\ _gothello => _gothello']_vars

\* C5 witness: the read loop goes on with one flag set and more bytes received
\* after the marker.
C5_Witness ==
  /\ pc = "read"
  /\ last = "read"
  /\ _got200
  /\ ~_gothello
  /\ ret > 0
  /\ ~Strstr(_buffer, offset - ret, HTTPS_OK_STR)

\* C6: after a would-block result of the handshake, the write or the read, the
\* same call is made next: no error is reported and the socket stays open.
C6_WouldBlockRetries ==
  (last \in LoopStages /\ IsWouldBlock(ret)) =>
    /\ pc = last
    /\ error = "none"
    /\ sock = "connected"
    /\ closes = 0

\* C6 witness: a read has returned would-block after part of the response.
C6_Witness ==
  /\ last = "read"
  /\ ret = MBEDTLS_ERR_SSL_WANT_WRITE
  /\ offset > 0
  /\ pc = "read"

\* C7: mbedtls_ssl_write and mbedtls_ssl_read are called only after
\* mbedtls_ssl_handshake has returned a result >= 0, and not after a failed
\* configuration, connect or handshake.
C7_IoOnlyWhenEstablished ==
  /\ last \in {"write", "read"} => established
  /\ pc \in {"write", "read"} => established
  /\ error \in ConfigErrors \cup {"connect", "mbedtls_ssl_handshake"} =>
       last \notin {"write", "read"} /\ Ended

\* C7 witness: a read has been made on an established session.
C7_Witness ==
  /\ last = "read"
  /\ established
  /\ rcvd > 0

\* C8: with the transport of scenario B, once the object is deleted: the
\* handshake error was reported after two handshake calls, no write or read
\* was called, and close was called exactly once.
C8_ScenarioB ==
  (mock.scenario = "B" /\ pc = "deleted") =>
    /\ error = "mbedtls_ssl_handshake"
    /\ mock.hs = 2
    /\ mock.wr = 0
    /\ mock.rd = 0
    /\ closes = 1

\* C9: when a read returns 0 the loop ends, no error is reported, the socket
\* is closed, and each flag tells whether the bytes received contain its marker.
C9_CleanClose ==
  (last = "read" /\ ret = 0) =>
    /\ Ended
    /\ error = "none"
    /\ sock = "closed"
    /\ _got200 = Contains(Received, HTTPS_OK_STR)
    /\ _gothello = Contains(Received, HTTPS_HELLO_STR)

\* the outcome scenario A is expected to have
ScenarioAOutcome ==
  /\ error = "none"
  /\ mock.hs = 3 /\ mock.wr = 2 /\ mock.rd = 3
  /\ _got200 /\ _gothello
  /\ flags = 0 => verdict = "passed"
  /\ sock = "closed"

\* C10: under SpecRunning, with the transport of scenario A, startTest ends,
\* and it ends after three handshake calls, two writes and three reads with no
\* error, both flags set, the socket closed, and "passed" reported when the
\* verification flags are 0.
C10_ScenarioA ==
  /\ (mock.scenario = "A") ~> Ended
  /\ []((mock.scenario = "A" /\ Ended) => ScenarioAOutcome)

\* C10 witness: scenario A has ended with the verification flags 0 and a read
\* boundary inside a marker.
C10_Witness ==
  /\ mock.scenario = "A"
  /\ pc = "returned"
  /\ flags = 0
  /\ verdict = "passed"
  /\ _got200 /\ _gothello
  /\ rcvd - mock.prev > 9
  /\ rcvd - mock.prev < 15

\* C11: the request length recorded in _bpos is at most RECV_BUFFER_SIZE - 1,
\* and every slice handed to mbedtls_ssl_write lies inside the buffer, also for
\* a path whose request is longer than the buffer.
C11_RequestFits ==
  /\ pc \in {"write", "get_verify_result"} => _bpos <= RECV_BUFFER_SIZE - 1
  /\ last = "write" =>
       /\ asked.at >= 0
       /\ asked.at + asked.len <= RECV_BUFFER_SIZE

\* C12: when a configuration call has failed, startTest has returned, the
\* failed call was the last one made, and connect, handshake, write and read
\* (and with them send and recv) were never called.
C12_ConfigErrorNoTransport ==
  /\ (last \in ConfigStages /\ ret # 0) => Ended /\ error \in ConfigErrors
  /\ error \in ConfigErrors =>
       /\ Ended
       /\ last \in ConfigStages /\ ret # 0
       /\ pc = "returned" => sock = "new" /\ closes = 0
       /\ ~established
       /\ asked = [at |-> 0, len |-> 0]
       /\ rcvd = 0

\* C12 witness: the last configuration call, mbedtls_ssl_setup, has failed and
\* startTest has returned.
C12_Witness ==
  /\ error = "mbedtls_ssl_setup"
  /\ last = "ssl_setup"
  /\ pc = "returned"
  /\ sock = "new"

\* the three ways startTest ends: a fatal error reported, both markers found,
\* or a read that returned 0 (peer close, or no room left in the buffer)
Outcome ==
  \/ error # "none"
  \/ error = "none" /\ _got200 /\ _gothello
  \/ error = "none" /\ last = "read" /\ ret = 0

\* connect has returned NSAPI_ERROR_OK
ConnectSucceeded == last \in {"handshake", "write", "get_verify_result", "read"}

\* C13: under SpecSettles (no call returns would-block forever, a read returns
\* at most the bytes asked for) startTest ends; it ends with a fatal error,
\* with both markers found, or with a read of 0 bytes; and when it ends after
\* a successful connect the socket is closed.
C13_RunToCompletion ==
  /\ <>Ended
  /\ [](Ended => (Outcome /\ (ConnectSucceeded => sock = "closed")))

\* C13 witness: startTest has ended without error because the buffer is full,
\* with one marker not found.
C13_Witness ==
  /\ pc = "returned"
  /\ error = "none"
  /\ last = "read"
  /\ offset = RECV_BUFFER_SIZE - 1
  /\ asked.len = 0
  /\ _got200 /\ ~_gothello
  /\ sock = "closed"

\* C14: every mbedtls_ssl_write is handed the slice that starts at the sent
\* offset and has the request length minus the sent offset as its length; the
\* offset advances by a positive result, stays on any other result, and does
\* not pass the request length (a write returns at most the length asked for).
C14_WriteRemainingSlice ==
  [][pc = "write" =>
       /\ last' = "write"
       /\ asked'.at = offset
       /\ asked'.len = _bpos - offset
       /\ ret' <= asked'.len
       /\ offset' = (IF ret' > 0 THEN offset + ret' ELSE offset)
       /\ offset' <= _bpos]_vars

\* C14 witness: a write has returned would-block after part of the request
\* was sent, and the same slice is due again.
C14_Witness ==
  /\ pc = "write"
  /\ last = "write"
  /\ IsWouldBlock(ret)
  /\ offset > 0
  /\ asked.at = offset
  /\ asked.len = _bpos - offset

\* C15: with both flags set no read is due: startTest has ended without an
\* error, on a read that delivered bytes; and startTest ends without error
\* with a flag not set only when the last read returned 0.
C15_StopWhenBothFound ==
  /\ (_got200 /\ _gothello) =>
       /\ Ended
       /\ last = "read"
       /\ error = "none"
       /\ ret > 0
  /\ (Ended /\ last = "read" /\ error = "none" /\ ~(_got200 /\ _gothello)) =>
       ret = 0

\* C15 witness: the second marker was found in a later read than the first,
\* and startTest has ended.
C15_Witness ==
  /\ pc = "returned"
  /\ last = "read"
  /\ _got200 /\ _gothello
  /\ error = "none"
  /\ mock.scenario = "none"
  /\ ~Strstr(_buffer, offset - ret, HTTPS_OK_STR)

\* C16: when the offset has reached RECV_BUFFER_SIZE - 1 no further read is
\* due: startTest has ended without error and each flag tells whether the
\* buffer holds its marker.
C16_ExhaustionStops ==
  (last = "read" /\ offset = RECV_BUFFER_SIZE - 1 /\ ~(_got200 /\ _gothello)) =>
    /\ Ended
    /\ error = "none"
    /\ _got200 = Strstr(_buffer, 0, HTTPS_OK_STR)
    /\ _gothello = Strstr(_buffer, 0, HTTPS_HELLO_STR)

\* what a callback that got result from the socket has to return, with
\* sentinel as its would-block value: the sentinel for would-block, a negative
\* value that is no retry sentinel for any other negative result, and the
\* result itself when it is a byte count
AdapterMaps(result, r, sentinel) ==
  /\ result = NSAPI_ERROR_WOULD_BLOCK => r = sentinel
  /\ (result < 0 /\ result # NSAPI_ERROR_WOULD_BLOCK) =>
       r < 0 /\ ~IsWouldBlock(r)
  /\ result >= 0 => r = result

\* C17: ssl_recv returns want-read for would-block, a negative value that is
\* no retry sentinel for any other negative result of the socket, and the
\* result itself when it is >= 0; ssl_send does the same with want-write.
C17_AdapterMapping ==
  bio.done =>
    /\ bio.fn = "ssl_recv" =>
         AdapterMaps(bio.result, bio.ret, MBEDTLS_ERR_SSL_WANT_READ)
    /\ bio.fn = "ssl_send" =>
         AdapterMaps(bio.result, bio.ret, MBEDTLS_ERR_SSL_WANT_WRITE)

\* C17 witness: ssl_send has returned for a socket error that is not would-block.
C17_Witness ==
  /\ bio.done
  /\ bio.fn = "ssl_send"
  /\ bio.result = NSAPI_ERROR_NO_CONNECTION
  /\ bio.ret = -1

\* the verification result has been retrieved
Retrieved == flags # -1

\* C18: the verification result is retrieved only after the handshake has
\* completed and the request was written; whatever it is, zero or not, the
\* retrieval leaves everything but the flags and the printed verdict as it
\* was and the read loop is next; after it startTest only reads and then
\* closes, the flags are not touched again, and the socket stays open and no
\* error is reported until the read loop ends.
C18_VerifyReportingOnly ==
  /\ [](pc = "get_verify_result" =>
          established /\ last = "write" /\ error = "none" /\ ~Retrieved)
  /\ [][pc = "get_verify_result" =>
          /\ flags' \in VerifyResults
          /\ pc' = "read"
          /\ offset' = 0
          /\ UNCHANGED <<ret, _bpos, _buffer, _got200, _gothello, path, sock,
                         closes, error, rcvd, established, asked, mock>>]_vars
  /\ [][Retrieved =>
          /\ UNCHANGED <<flags, verdict>>
          /\ \/ pc = "read" /\ last' = "read"
             \/ pc = "returned" /\ pc' = "deleted"]_vars
  /\ []((Retrieved /\ pc = "read") =>
          sock = "connected" /\ closes = 0 /\ error = "none")
  /\ []((Retrieved /\ Ended) =>
          /\ last = "read"
          /\ sock = "closed"
          /\ error \in {"none", "mbedtls_ssl_read"}
          /\ error = "mbedtls_ssl_read" => StageFailed)

\* C18 witness: the verification result was nonzero, and startTest has read
\* the whole response, found both markers and ended without error.
C18_Witness ==
  /\ flags = MBEDTLS_X509_BADCERT_NOT_TRUSTED
  /\ verdict = "failed"
  /\ pc = "returned"
  /\ last = "read"
  /\ error = "none"
  /\ _got200 /\ _gothello
  /\ closes = 1

\* the characters of the request that snprintf has stored in the buffer
Rendered ==
  SubSeq(RequestText(path), 1,
         Min(Len(RequestText(path)), RECV_BUFFER_SIZE - 2))

\* C19: once the request is rendered, the bytes of the buffer that hold it
\* stay as the writer left them and _bpos stays the request length, also
\* while and after the response is read.
C19_RequestKept ==
  (established /\ pc # "handshake") =>
    /\ \A i \in 1..Len(Rendered) : _buffer[i - 1] = Rendered[i]
    /\ _bpos = Len(RequestText(path))

\* C20: a flag is set only if the bytes received from the peer so far hold
\* its marker; the request text in the buffer is not scanned, also when the
\* path holds a marker and the first reads deliver nothing.
C20_FlagsFromReceived ==
  /\ _got200 => Contains(Received, HTTPS_OK_STR)
  /\ _gothello => Contains(Received, HTTPS_HELLO_STR)

\* C20 witness: the request holds "200 OK" in its path and is still in the
\* buffer behind the terminator; the first read has returned would-block and
\* the flag is not set.
C20_Witness ==
  /\ last = "read"
  /\ IsWouldBlock(ret)
  /\ rcvd = 0
  /\ Contains(path, HTTPS_OK_STR)
  /\ _buffer[0] = NUL
  /\ Strstr(_buffer, 1, HTTPS_OK_STR)
  /\ ~_got200

=============================================================================
